---- MODULE Spec2Model ----
(***************************************************************************)
(* Model of the Motherboard+ payment API (src/main.py): the users,         *)
(* subscriptions and payment_logs tables, and the request handlers that    *)
(* read and write them on behalf of API callers and of the processor's     *)
(* webhooks.                                                               *)
(*                                                                         *)
(* Granularity.  Handlers are coroutines; database calls are synchronous,  *)
(* so a handler runs atomically from one `await` on the processor client   *)
(* to the next.  A handler that reads the database before its processor    *)
(* call is therefore two actions (..._begin, ..._finish) with the request  *)
(* held in a slot of `req` in between; a handler that touches the database *)
(* only after the processor has answered is one action taking the answer   *)
(* as input.                                                               *)
(*                                                                         *)
(* Responses and effects.  What a handler step returns or raises, and the  *)
(* tables it leaves, are functions of the state it runs in and of its      *)
(* inputs: the ..._response and ..._tables operators.  The actions are     *)
(* written on top of them.                                                 *)
(*                                                                         *)
(* Persistence.  Each request has its own session.  A commit writes, for   *)
(* a row loaded before the await, only the columns whose new value differs *)
(* from the value that was loaded (the unit of work compares each set      *)
(* attribute with its loaded value), see flush_attr.  A failed flush       *)
(* (unique constraint) raises and the handler's rollback discards only the *)
(* writes made since its last commit.                                      *)
(*                                                                         *)
(* Left out: first_name, last_name, paystack_customer_code/id, amount,     *)
(* created_at/updated_at, metadata_json and next_payment_date, which no    *)
(* handler branches on.  A processor answer that accepts a subscription is *)
(* taken to carry a subscription_code the processor has not issued before. *)
(***************************************************************************)
EXTENDS Integers, Sequences, FiniteSets, TLC

\* ------------------------------------------------------------------ bounds

\* number of requests that can be waiting for the processor at the same time
MaxReqs == 2
\* number of subscriptions the processor accepts in one behaviour
MaxSubs == 2

\* ------------------------------------------------------------------ values

\* Python None / SQL NULL for string-valued columns
Null == "None"
\* an absent or empty e-mail (None and "" are both falsy in the handlers)
NoEmail == <<>>

\* e-mails are sequences of characters
E_lower == <<"a", "@", "b", ".", "c">>
E_upper == <<"A", "@", "b", ".", "c">>
E_upper_sp == <<"A", "@", "b", ".", "c", " ">>
\* what a caller can send as `email`
E_invalid == <<"a", "b">>
RawEmails == {NoEmail, E_invalid, E_lower, E_upper, E_upper_sp}
\* the customer e-mail the processor reports in a transaction or an event: the
\* processor keeps e-mails in lower case; the customer may or may not (yet) be
\* registered here
ProcessorEmails == {E_lower}

AuthCodes == {"AUTH_1", "AUTH_2"}
References == {"ref_1", "ref_2"}
SubCodes == <<"SUB_1", "SUB_2", "SUB_3", "SUB_4">>
EmailTokens == <<"TOK_1", "TOK_2", "TOK_3", "TOK_4">>
PLAN == "PLN_u6si72zqqto8dq0"
Now == "utcnow"

\* what a caller can send as `reference` ("" when it is missing)
RawReferences == References \cup {""}

\* how a call to the processor can end: 2xx with status true, a refusal
\* (non-2xx, or status false), or no answer at all (httpx raises)
ProcOutcomes == {"accepted", "rejected", "unreachable"}

\* the answers to GET /transaction/verify/{reference}: no transaction without
\* a 2xx answer, no customer or authorization looked at unless status is success
VerifyAnswers ==
    [outcome : {"rejected", "unreachable"}, status : {Null},
     customer_email : {NoEmail}, authorization_code : {Null}]
    \cup [outcome : {"accepted"}, status : {"failed"},
          customer_email : {NoEmail}, authorization_code : {Null}]
    \cup [outcome : {"accepted"}, status : {"success"},
          customer_email : ProcessorEmails, authorization_code : AuthCodes \cup {Null}]

\* the answers to POST /subscription: an accepted one may lack an email_token
SubscriptionAnswers ==
    [outcome : {"rejected", "unreachable"}, with_token : {FALSE}]
    \cup [outcome : {"accepted"}, with_token : BOOLEAN]

\* ------------------------------------------------------------------ strings

Chars(s) == {s[i] : i \in 1..Len(s)}

LowerChar(c) == IF c = "A" THEN "a" ELSE c

\* str.lower()
lower(s) == [i \in 1..Len(s) |-> LowerChar(s[i])]

RECURSIVE lstrip(_)
lstrip(s) == IF s # <<>> /\ Head(s) = " " THEN lstrip(Tail(s)) ELSE s

RECURSIVE rstrip(_)
rstrip(s) == IF s # <<>> /\ s[Len(s)] = " " THEN rstrip(SubSeq(s, 1, Len(s) - 1)) ELSE s

\* str.strip()
strip(s) == rstrip(lstrip(s))

\* validate_email raises ValueError on these
validate_email_raises(email) == email = <<>> \/ "@" \notin Chars(email) \/ "." \notin Chars(email)

\* validate_email's return value
validate_email(email) == strip(lower(email))

\* ------------------------------------------------------------------ state

VARIABLES
    users,          \* table users: sequence of rows, index = id
    subscriptions,  \* table subscriptions
    payment_logs,   \* table payment_logs
    req,            \* requests suspended on a processor call, by slot
    minted          \* processor: number of subscriptions it has created

vars == <<users, subscriptions, payment_logs, req, minted>>
tables == <<users, subscriptions, payment_logs>>

Slots == 1..MaxReqs

IdleReq == [pc |-> "idle", op |-> Null, email |-> NoEmail, uid |-> 0,
            reference |-> Null, loaded_active |-> FALSE]

\* a response: the HTTP status and the body's "status" or the error's "detail"
Response(http, detail) == [http |-> http, detail |-> detail]
\* no response yet: the handler is suspended on its processor call
Pending == Response("none", "await")

Init ==
    /\ users = <<>>
    /\ subscriptions = <<>>
    /\ payment_logs = <<>>
    /\ req = [r \in Slots |-> IdleReq]
    /\ minted = 0

\* a new request takes the lowest free slot (slots are interchangeable)
FreeSlots == {r \in Slots : req[r].pc = "idle"}
FreeSlot == CHOOSE r \in FreeSlots : \A q \in FreeSlots : r <= q

\* the handler suspends on its processor call
Suspend(op, email, uid, reference, loaded_active) ==
    /\ FreeSlots # {}
    /\ req' = [req EXCEPT ![FreeSlot] =
                  [pc |-> "await", op |-> op, email |-> email, uid |-> uid,
                   reference |-> reference, loaded_active |-> loaded_active]]

\* the suspended handler of slot r is resumed and ends
Release(r) == req' = [req EXCEPT ![r] = IdleReq]

\* the three tables, as a handler step finds or leaves them
Tables(u, s, p) == [users |-> u, subscriptions |-> s, payment_logs |-> p]
Current == Tables(users, subscriptions, payment_logs)

\* the step commits these tables
Commit(t) ==
    /\ users' = t.users
    /\ subscriptions' = t.subscriptions
    /\ payment_logs' = t.payment_logs

Suspended(r, op) == req[r].pc = "await" /\ req[r].op = op

\* ------------------------------------------------------------------ queries

\* db.query(User).filter(User.email == email).first(): the row's id, 0 for None
UserByEmail(email) ==
    IF \E i \in 1..Len(users) : users[i].email = email
    THEN CHOOSE i \in 1..Len(users) :
            /\ users[i].email = email
            /\ \A j \in 1..Len(users) : users[j].email = email => i <= j
    ELSE 0

\* db.query(Subscription).filter(Subscription.subscription_code == code).first()
SubscriptionByCode(code) ==
    IF \E i \in 1..Len(subscriptions) : subscriptions[i].subscription_code = code
    THEN CHOOSE i \in 1..Len(subscriptions) :
            /\ subscriptions[i].subscription_code = code
            /\ \A j \in 1..Len(subscriptions) :
                  subscriptions[j].subscription_code = code => i <= j
    ELSE 0

\* unique=True on users.email
UserEmailTaken(email) == \E i \in 1..Len(users) : users[i].email = email

\* ReferenceTaken without the unique constraint
ReferenceTaken_unconstrained(reference) == FALSE

\* unique=True on payment_logs.reference
ReferenceTaken(reference) ==
    \E i \in 1..Len(payment_logs) : payment_logs[i].reference = reference

\* unique=True on subscriptions.subscription_code
SubscriptionCodeTaken(code) ==
    \E i \in 1..Len(subscriptions) : subscriptions[i].subscription_code = code

\* the column value a commit leaves for an attribute that was loaded as
\* `loaded`, is `current` in the table now, and was assigned `new`
flush_attr(current, loaded, new) == IF new = loaded THEN current ELSE new

\* ------------------------------------------------------------------ rows

\* User(email=..., subscription_active=False), column defaults for the rest
NewUser(email) ==
    [email |-> email, authorization_code |-> Null, email_token |-> Null,
     first_authorization |-> FALSE, subscription_active |-> FALSE,
     subscription_code |-> Null, last_payment_date |-> Null]

\* NewSubscription without the e-mail
NewSubscription_anonymous(email, code, token) ==
    [email |-> NoEmail, subscription_code |-> code, plan_id |-> PLAN,
     status |-> "active", email_token |-> token]

\* Subscription(email=..., subscription_code=..., plan_id=..., status=..., email_token=...)
NewSubscription(email, code, token) ==
    [email |-> email, subscription_code |-> code, plan_id |-> PLAN,
     status |-> "active", email_token |-> token]

\* PaymentLog(email=..., reference=..., status="success", event_type=...)
NewPaymentLog(email, reference, event_type) ==
    [email |-> email, reference |-> reference, status |-> "success",
     event_type |-> event_type]

\* the processor's answer to an accepted POST /subscription
NextSubCode == SubCodes[minted + 1]
NextEmailToken(with_token) == IF with_token THEN EmailTokens[minted + 1] ELSE Null

\* ------------------------------------------------------------------ POST /api/customers

\* lines 133, 202, 323: the e-mail a handler takes from the request body
body_email(raw) == strip(raw)

\* lines 405, 549: the e-mail a handler takes from the path
path_email(raw) == lower(raw)

\* what create_customer answers before its processor call, if it does
create_customer_begin_response(raw) ==
    LET email == body_email(raw) IN
    IF email = NoEmail
    THEN Response("400", "email, first_name, and last_name are required")
    ELSE IF validate_email_raises(email)
    THEN Response("500", "Invalid email format")
    ELSE IF UserByEmail(email) # 0
    THEN Response("400", "Customer already exists")
    ELSE Pending

\* up to the await on POST /customer
create_customer_begin(raw) ==
    IF create_customer_begin_response(raw) # Pending
    THEN UNCHANGED vars
    ELSE /\ Suspend("create_customer", body_email(raw), 0, Null, FALSE)
         /\ UNCHANGED <<users, subscriptions, payment_logs, minted>>

\* what create_customer answers once the processor has
create_customer_finish_response(r, outcome) ==
    IF outcome = "rejected"
    THEN Response("400", "Failed to create customer on Paystack")
    ELSE IF outcome = "unreachable"
    THEN Response("500", "exception")
    ELSE IF UserEmailTaken(req[r].email)
    THEN Response("500", "exception")   \* IntegrityError on commit, db.rollback()
    ELSE Response("200", "success")

create_customer_finish_tables(r, outcome) ==
    IF create_customer_finish_response(r, outcome).http = "200"
    THEN [Current EXCEPT !.users = Append(users, NewUser(req[r].email))]
    ELSE Current

\* from the processor's answer to the return
create_customer_finish(r, outcome) ==
    /\ Suspended(r, "create_customer")
    /\ Release(r)
    /\ Commit(create_customer_finish_tables(r, outcome))
    /\ UNCHANGED minted

\* ------------------------------------------------------------------ POST /api/initialize-payment

initialize_payment_response(raw, outcome) ==
    LET email == body_email(raw) IN
    IF email = NoEmail
    THEN Response("400", "email is required")
    ELSE IF UserByEmail(email) = 0
    THEN Response("404", "Customer not found. Create customer first.")
    ELSE IF outcome = "rejected"
    THEN Response("400", "Failed to initialize payment")
    ELSE IF outcome = "unreachable"
    THEN Response("500", "exception")
    ELSE Response("200", "success")

\* no local state is written, whatever the answer
initialize_payment(raw, outcome) ==
    /\ initialize_payment_response(raw, outcome).http \in {"200", "400", "404", "500"}
    /\ UNCHANGED vars

\* ------------------------------------------------------------------ POST /api/verify-payment

\* save_authorization that also activates the subscription
save_authorization_and_activate(table, uid, auth_code) ==
    IF uid # 0 /\ auth_code # Null
    THEN [table EXCEPT ![uid].authorization_code = auth_code,
                       ![uid].first_authorization = TRUE,
                       ![uid].subscription_active = TRUE]
    ELSE table

\* lines 282-289: user.authorization_code = auth_code;
\* user.first_authorization = True; db.commit()
save_authorization(table, uid, auth_code) ==
    IF uid # 0 /\ auth_code # Null
    THEN [table EXCEPT ![uid].authorization_code = auth_code,
                       ![uid].first_authorization = TRUE]
    ELSE table

\* `answer` is what the processor reports for the reference
verify_payment_response(raw, answer) ==
    IF raw = ""
    THEN Response("400", "reference is required")
    ELSE IF answer.outcome = "rejected"
    THEN Response("400", "Failed to verify payment")
    ELSE IF answer.outcome = "unreachable"
    THEN Response("500", "exception")
    ELSE IF answer.status # "success"
    THEN Response("200", "failed")
    ELSE IF ReferenceTaken(raw)
    THEN Response("500", "exception")   \* IntegrityError on the last commit, db.rollback()
    ELSE Response("200", "success")

\* lines 277-300 are reached only for a transaction reported successful
verify_payment_reaches_log(raw, answer) ==
    /\ raw # ""
    /\ answer.outcome = "accepted"
    /\ answer.status = "success"

verify_payment_tables(raw, answer) ==
    IF ~verify_payment_reaches_log(raw, answer)
    THEN Current
    ELSE [Current EXCEPT
            !.users = save_authorization(users, UserByEmail(answer.customer_email),
                                         answer.authorization_code),
            !.payment_logs =
                IF verify_payment_response(raw, answer).http = "200"
                THEN Append(payment_logs,
                            NewPaymentLog(answer.customer_email, raw, "initial_payment"))
                ELSE payment_logs]

verify_payment(raw, answer) ==
    /\ Commit(verify_payment_tables(raw, answer))
    /\ UNCHANGED <<req, minted>>

\* ------------------------------------------------------------------ POST /api/create-subscription

\* what create_subscription answers before its processor call, if it does
create_subscription_begin_response(raw) ==
    LET email == body_email(raw)
        uid == UserByEmail(email) IN
    IF email = NoEmail
    THEN Response("400", "email is required")
    ELSE IF uid = 0
    THEN Response("404", "Customer not found")
    ELSE IF users[uid].authorization_code = Null
    THEN Response("400", "Customer must complete initial payment first")
    ELSE Pending

\* up to the await on POST /subscription
create_subscription_begin(raw) ==
    LET email == body_email(raw)
        uid == UserByEmail(email) IN
    IF create_subscription_begin_response(raw) # Pending
    THEN UNCHANGED vars
    ELSE /\ Suspend("create_subscription", email, uid, Null, users[uid].subscription_active)
         /\ UNCHANGED <<users, subscriptions, payment_logs, minted>>

\* what create_subscription answers once the processor has
create_subscription_finish_response(r, answer) ==
    IF answer.outcome = "rejected"
    THEN Response("400", "Failed to create subscription")
    ELSE IF answer.outcome = "unreachable"
    THEN Response("500", "exception")
    ELSE IF SubscriptionCodeTaken(NextSubCode)
    THEN Response("500", "exception")   \* IntegrityError on commit, db.rollback()
    ELSE Response("200", "success")

\* subscribe_user with the assignment of line 377 left out
subscribe_user_without_code(row, loaded_active, code, token) ==
    [row EXCEPT !.subscription_active = flush_attr(@, loaded_active, TRUE),
                !.email_token = IF token # Null THEN token ELSE @]

\* lines 376-383: the user columns written by create_subscription's commit
subscribe_user(row, loaded_active, code, token) ==
    [row EXCEPT !.subscription_active = flush_attr(@, loaded_active, TRUE),
                !.subscription_code = code,
                !.email_token = IF token # Null THEN token ELSE @]

create_subscription_finish_tables(r, answer) ==
    LET code == NextSubCode
        token == NextEmailToken(answer.with_token) IN
    IF create_subscription_finish_response(r, answer).http = "200"
    THEN [Current EXCEPT
            !.subscriptions = Append(subscriptions,
                                     NewSubscription(req[r].email, code, token)),
            !.users = [users EXCEPT ![req[r].uid] =
                          subscribe_user(@, req[r].loaded_active, code, token)]]
    ELSE Current

\* the processor has one more subscription once it has accepted the request
processor_after(answer) == IF answer.outcome = "accepted" THEN minted + 1 ELSE minted

\* from the processor's answer to the return
create_subscription_finish(r, answer) ==
    /\ Suspended(r, "create_subscription")
    /\ answer.outcome = "accepted" => minted < MaxSubs
    /\ Release(r)
    /\ minted' = processor_after(answer)
    /\ Commit(create_subscription_finish_tables(r, answer))

\* ------------------------------------------------------------------ GET /api/subscription-status/{email}

check_subscription_status_response(raw) ==
    LET uid == UserByEmail(path_email(raw)) IN
    IF uid = 0
    THEN Response("200", "not_found")
    ELSE Response("200", "found")

check_subscription_status(raw) ==
    /\ check_subscription_status_response(raw).http = "200"
    /\ UNCHANGED vars

\* ------------------------------------------------------------------ POST /api/webhooks/paystack

PAYSTACK_SECRET_KEY == "sk_secret"

\* hmac.new(key, raw_body, hashlib.sha512).hexdigest(): a digest is determined
\* by the key and the body, and differs when either differs
hmac_sha512(key, body) == <<key, body>>

\* no X-Paystack-Signature header
NoSignature == <<>>

\* the bodies a webhook request can carry; json_ok = FALSE is a body
\* json.loads cannot parse
ChargeBodies ==
    [json_ok : {TRUE}, event : {"charge.success"},
     customer_email : ProcessorEmails \cup {NoEmail},
     authorization_code : AuthCodes \cup {Null}, reference : References]
DisableBodies ==
    [json_ok : {TRUE}, event : {"subscription.disable", "subscription.not_renew"},
     customer_email : ProcessorEmails \cup {NoEmail},
     authorization_code : {Null}, reference : {Null}]
OtherBodies ==
    [json_ok : {TRUE, FALSE}, event : {"invoice.create"}, customer_email : {NoEmail},
     authorization_code : {Null}, reference : {Null}]
Bodies == ChargeBodies \cup DisableBodies \cup OtherBodies

\* the signature headers a request with this body can carry
Signatures(body) ==
    {NoSignature, hmac_sha512(PAYSTACK_SECRET_KEY, body), hmac_sha512("sk_other", body)}

\* signature_ok with the comparison of lines 436-444 left out
signature_ok_any_header(signature, body) == signature # NoSignature

\* lines 431-444: the header is present and equals the computed digest
signature_ok(signature, body) ==
    /\ signature # NoSignature
    /\ signature = hmac_sha512(PAYSTACK_SECRET_KEY, body)

\* lines 428-444: the request gets as far as the events
webhook_admitted(body, signature) == body.json_ok /\ signature_ok(signature, body)

\* lines 462-469: the user columns written by charge.success's first commit
charge_user(row, auth_code) ==
    [row EXCEPT !.authorization_code = IF auth_code # Null THEN auth_code ELSE @,
                !.first_authorization = IF auth_code # Null THEN TRUE ELSE @,
                !.subscription_active = TRUE,
                !.last_payment_date = Now]

\* the users table after charge.success's first commit
charged_users(body) ==
    LET uid == UserByEmail(body.customer_email) IN
    IF uid = 0 THEN users
    ELSE [users EXCEPT ![uid] = charge_user(@, body.authorization_code)]

\* auto_subscribe that stands back while a create_subscription call for the
\* same user waits for the processor
auto_subscribe_exclusive(body) ==
    LET uid == UserByEmail(body.customer_email) IN
    /\ uid # 0
    /\ charged_users(body)[uid].authorization_code # Null
    /\ charged_users(body)[uid].subscription_code = Null
    /\ ~\E r \in Slots : Suspended(r, "create_subscription") /\ req[r].uid = uid

\* line 472: a subscription is to be created for the user just charged
auto_subscribe(body) ==
    LET uid == UserByEmail(body.customer_email) IN
    /\ uid # 0
    /\ charged_users(body)[uid].authorization_code # Null
    /\ charged_users(body)[uid].subscription_code = Null

\* disable_user that also drops the subscription_code
disable_user_and_forget(row) ==
    [row EXCEPT !.subscription_active = FALSE, !.subscription_code = Null]

\* lines 530-533: the user column written by subscription.disable / not_renew
disable_user(row) == [row EXCEPT !.subscription_active = FALSE]

\* log_charge without the insert
log_charge_skipped(customer_email, reference) == payment_logs

\* lines 509-518: the payment log insert that ends the charge.success branch;
\* on an IntegrityError the handler's except clause rolls it back
log_charge(customer_email, reference) ==
    IF ReferenceTaken(reference)
    THEN payment_logs
    ELSE Append(payment_logs, NewPaymentLog(customer_email, reference, "charge.success"))

\* log_charge_response with the IntegrityError raised to the sender
log_charge_response_raising(reference) ==
    IF ReferenceTaken(reference) THEN Response("500", "exception") ELSE Response("200", "ok")

\* lines 517-518, 535-540: the answer after the payment log commit
log_charge_response(reference) ==
    IF ReferenceTaken(reference) THEN Response("200", "error") ELSE Response("200", "ok")

\* what the webhook answers before a processor call, if it does
paystack_webhook_begin_response(body, signature) ==
    IF ~webhook_admitted(body, signature)
    THEN Response("200", "error")
    ELSE IF body.event = "charge.success"
    THEN IF body.customer_email = NoEmail
         THEN Response("200", "ok")
         ELSE IF auto_subscribe(body)
         THEN Pending
         ELSE log_charge_response(body.reference)
    ELSE Response("200", "ok")

\* the tables the webhook leaves when it returns or suspends
paystack_webhook_begin_tables(body, signature) ==
    LET uid == UserByEmail(body.customer_email) IN
    IF ~webhook_admitted(body, signature) \/ body.customer_email = NoEmail
    THEN Current
    ELSE IF body.event = "charge.success"
    THEN [Current EXCEPT
            !.users = charged_users(body),
            !.payment_logs = IF auto_subscribe(body)
                             THEN payment_logs
                             ELSE log_charge(body.customer_email, body.reference)]
    ELSE IF body.event \in {"subscription.disable", "subscription.not_renew"} /\ uid # 0
    THEN [Current EXCEPT !.users = [users EXCEPT ![uid] = disable_user(@)]]
    ELSE Current

\* the request is answered before any event is looked at
paystack_webhook_refused(body, signature) ==
    /\ ~webhook_admitted(body, signature)
    /\ Commit(paystack_webhook_begin_tables(body, signature))
    /\ UNCHANGED <<req, minted>>

\* charge.success up to the await on POST /subscription, or to the return
\* when no subscription is to be created
paystack_webhook_charge_begin(body, signature) ==
    /\ webhook_admitted(body, signature)
    /\ body.event = "charge.success"
    /\ Commit(paystack_webhook_begin_tables(body, signature))
    /\ IF paystack_webhook_begin_response(body, signature) = Pending
       THEN Suspend("webhook_charge", body.customer_email,
                    UserByEmail(body.customer_email), body.reference, FALSE)
       ELSE UNCHANGED req
    /\ UNCHANGED minted

\* attach_subscription with the assignment of line 502 left out
attach_subscription_token_only(row, code, token) ==
    [row EXCEPT !.email_token = IF token # Null THEN token ELSE @]

\* lines 502-504: the user columns written with the new subscription
attach_subscription(row, code, token) ==
    [row EXCEPT !.subscription_code = code,
                !.email_token = IF token # Null THEN token ELSE @]

\* auto_subscription_stored for a webhook that never stores the subscription
auto_subscription_dropped(answer) == FALSE

\* lines 489-505: the answer leads to a Subscription row and its commit
auto_subscription_stored(answer) ==
    answer.outcome = "accepted" /\ ~SubscriptionCodeTaken(NextSubCode)

\* auto_subscription_broken where a processor failure breaks the delivery too
auto_subscription_fatal(answer) ==
    answer.outcome # "accepted" \/ SubscriptionCodeTaken(NextSubCode)

\* an IntegrityError on the subscription is swallowed by the inner except,
\* leaves the session invalid and makes the payment log commit raise
auto_subscription_broken(answer) ==
    answer.outcome = "accepted" /\ SubscriptionCodeTaken(NextSubCode)

\* what the webhook answers to charge.success once the processor has
paystack_webhook_charge_finish_response(r, answer) ==
    IF auto_subscription_broken(answer)
    THEN Response("200", "error")
    ELSE log_charge_response(req[r].reference)

paystack_webhook_charge_finish_tables(r, answer) ==
    LET code == NextSubCode
        token == NextEmailToken(answer.with_token) IN
    [users |-> IF auto_subscription_stored(answer)
               THEN [users EXCEPT ![req[r].uid] = attach_subscription(@, code, token)]
               ELSE users,
     subscriptions |-> IF auto_subscription_stored(answer)
                       THEN Append(subscriptions,
                                   NewSubscription(req[r].email, code, token))
                       ELSE subscriptions,
     payment_logs |-> IF auto_subscription_broken(answer)
                      THEN payment_logs
                      ELSE log_charge(req[r].email, req[r].reference)]

\* charge.success from the processor's answer to the return
paystack_webhook_charge_finish(r, answer) ==
    /\ Suspended(r, "webhook_charge")
    /\ answer.outcome = "accepted" => minted < MaxSubs
    /\ Release(r)
    /\ minted' = processor_after(answer)
    /\ Commit(paystack_webhook_charge_finish_tables(r, answer))

\* subscription.disable / subscription.not_renew
paystack_webhook_disable(body, signature) ==
    /\ webhook_admitted(body, signature)
    /\ body.event \in {"subscription.disable", "subscription.not_renew"}
    /\ Commit(paystack_webhook_begin_tables(body, signature))
    /\ UNCHANGED <<req, minted>>

\* any other event
paystack_webhook_other(body, signature) ==
    /\ webhook_admitted(body, signature)
    /\ body.event \notin {"charge.success", "subscription.disable", "subscription.not_renew"}
    /\ Commit(paystack_webhook_begin_tables(body, signature))
    /\ UNCHANGED <<req, minted>>

\* ------------------------------------------------------------------ POST /api/cancel-subscription/{email}

\* cancel_token falling back on the subscription code when no token is stored
cancel_token_or_code(uid) ==
    IF users[uid].email_token # Null
    THEN users[uid].email_token
    ELSE LET sid == SubscriptionByCode(users[uid].subscription_code) IN
         IF sid # 0 /\ subscriptions[sid].email_token # Null
         THEN subscriptions[sid].email_token
         ELSE users[uid].subscription_code

\* lines 557-561: user.email_token, else the subscription row's
cancel_token(uid) ==
    IF users[uid].email_token # Null
    THEN users[uid].email_token
    ELSE LET sid == SubscriptionByCode(users[uid].subscription_code) IN
         IF sid # 0 THEN subscriptions[sid].email_token ELSE Null

\* what cancel_subscription answers before its processor call, if it does
cancel_subscription_begin_response(raw) ==
    LET uid == UserByEmail(path_email(raw)) IN
    IF raw = NoEmail
    THEN Response("400", "email is required")
    ELSE IF uid = 0
    THEN Response("404", "Customer not found")
    ELSE IF users[uid].subscription_code = Null
    THEN Response("400", "No active subscription found")
    ELSE IF cancel_token(uid) = Null
    THEN Response("400", "Missing email_token for subscription cancellation")
    ELSE Pending

\* up to the await on POST /subscription/disable
cancel_subscription_begin(raw) ==
    LET uid == UserByEmail(path_email(raw)) IN
    IF cancel_subscription_begin_response(raw) # Pending
    THEN UNCHANGED vars
    ELSE /\ Suspend("cancel_subscription", path_email(raw), uid, Null,
                    users[uid].subscription_active)
         /\ UNCHANGED <<users, subscriptions, payment_logs, minted>>

\* cancel_subscription_finish_response taking a refusal for a success
cancel_subscription_finish_response_lenient(r, outcome) ==
    IF outcome = "unreachable"
    THEN Response("500", "exception")
    ELSE Response("200", "success")

\* what cancel_subscription answers once the processor has
cancel_subscription_finish_response(r, outcome) ==
    IF outcome = "rejected"
    THEN Response("400", "Failed to cancel subscription")
    ELSE IF outcome = "unreachable"
    THEN Response("500", "exception")
    ELSE Response("200", "success")

\* unsubscribe_user that also drops the subscription_code
unsubscribe_user_and_forget(row, loaded_active) ==
    [row EXCEPT !.subscription_active = flush_attr(@, loaded_active, FALSE),
                !.subscription_code = Null]

\* lines 592-594: the user column written by cancel_subscription's commit
unsubscribe_user(row, loaded_active) ==
    [row EXCEPT !.subscription_active = flush_attr(@, loaded_active, FALSE)]

cancel_subscription_finish_tables(r, outcome) ==
    IF cancel_subscription_finish_response(r, outcome).http = "200"
    THEN [Current EXCEPT !.users =
            [users EXCEPT ![req[r].uid] = unsubscribe_user(@, req[r].loaded_active)]]
    ELSE Current

\* from the processor's answer to the return
cancel_subscription_finish(r, outcome) ==
    /\ Suspended(r, "cancel_subscription")
    /\ Release(r)
    /\ Commit(cancel_subscription_finish_tables(r, outcome))
    /\ UNCHANGED minted

\* ------------------------------------------------------------------ specification

Next ==
    \/ \E raw \in RawEmails : create_customer_begin(raw)
    \/ \E r \in Slots, outcome \in ProcOutcomes : create_customer_finish(r, outcome)
    \/ \E raw \in RawEmails, outcome \in ProcOutcomes : initialize_payment(raw, outcome)
    \/ \E raw \in RawReferences, answer \in VerifyAnswers : verify_payment(raw, answer)
    \/ \E raw \in RawEmails : create_subscription_begin(raw)
    \/ \E r \in Slots, answer \in SubscriptionAnswers : create_subscription_finish(r, answer)
    \/ \E raw \in RawEmails : check_subscription_status(raw)
    \/ \E body \in Bodies : \E signature \in Signatures(body) :
          paystack_webhook_refused(body, signature)
    \/ \E body \in ChargeBodies : \E signature \in Signatures(body) :
          paystack_webhook_charge_begin(body, signature)
    \/ \E r \in Slots, answer \in SubscriptionAnswers :
          paystack_webhook_charge_finish(r, answer)
    \/ \E body \in DisableBodies : \E signature \in Signatures(body) :
          paystack_webhook_disable(body, signature)
    \/ \E body \in OtherBodies : \E signature \in Signatures(body) :
          paystack_webhook_other(body, signature)
    \/ \E raw \in RawEmails : cancel_subscription_begin(raw)
    \/ \E r \in Slots, outcome \in ProcOutcomes : cancel_subscription_finish(r, outcome)

Spec == Init /\ [][Next]_vars

\* a charge.success delivery that the processor sends again unchanged
ReplayedBody ==
    [json_ok |-> TRUE, event |-> "charge.success", customer_email |-> E_lower,
     authorization_code |-> "AUTH_1", reference |-> "ref_1"]

\* customers register and the processor delivers ReplayedBody, validly signed,
\* any number of times; nothing else creates a subscription
NextReplay ==
    \/ \E raw \in RawEmails : create_customer_begin(raw)
    \/ \E r \in Slots, outcome \in ProcOutcomes : create_customer_finish(r, outcome)
    \/ paystack_webhook_charge_begin(ReplayedBody,
                                     hmac_sha512(PAYSTACK_SECRET_KEY, ReplayedBody))
    \/ \E r \in Slots, answer \in SubscriptionAnswers :
          paystack_webhook_charge_finish(r, answer)

SpecReplay == Init /\ [][NextReplay]_vars

\* ------------------------------------------------------------------ claims

UserIds == 1..Len(users)
SubscriptionIds == 1..Len(subscriptions)

\* the rows of a payment_logs table that carry the reference
RowsWithReference(logs, reference) ==
    {i \in 1..Len(logs) : logs[i].reference = reference}

\* the processor reports the transaction as successful
SuccessAnswers == {a \in VerifyAnswers : a.outcome = "accepted" /\ a.status = "success"}

\* HTTP statuses that tell the client its request was at fault
ClientErrors == {"400", "404", "409", "422"}

\* C1 as stated: every user with subscription_active = true has a
\* subscription_code.
C1_ActiveHasCode ==
    \A i \in UserIds :
        users[i].subscription_active => users[i].subscription_code # Null

\* C1, amended: every user with subscription_active = true has a
\* subscription_code or a last_payment_date, the mark of the charge.success
\* webhook that activated it.
C1_ActiveHasCodeOrCharge ==
    \A i \in UserIds :
        users[i].subscription_active =>
            users[i].subscription_code # Null \/ users[i].last_payment_date # Null

\* a user activated by create_subscription alone
C1_Witness ==
    \E i \in UserIds :
        /\ users[i].subscription_active
        /\ users[i].subscription_code # Null
        /\ users[i].last_payment_date = Null

\* C2: whatever the order of the deliveries of one charge.success payload,
\* at most one Subscription row is inserted for its user.
C2_ReplayInsertsOneSubscription ==
    Cardinality({i \in SubscriptionIds :
                    subscriptions[i].email = ReplayedBody.customer_email}) <= 1

\* C3: verifying a successful reference that is not logged yet succeeds and
\* leaves one PaymentLog row for it; verifying one that is logged already
\* is answered with a client error and still leaves one row for it.
C3_SecondVerifyIsConflict ==
    \A reference \in References, a \in SuccessAnswers :
        LET answered == verify_payment_response(reference, a)
            after == verify_payment_tables(reference, a).payment_logs IN
        /\ Cardinality(RowsWithReference(after, reference)) = 1
        /\ ~ReferenceTaken(reference) => answered = Response("200", "success")
        /\ ReferenceTaken(reference) => answered.http \in ClientErrors

\* C4: two e-mails with the same normal form (lower case, trimmed) resolve to
\* the same User row, whichever handlers read them.
C4_SameNormalFormSameUser ==
    \A e1, e2 \in RawEmails :
        validate_email(e1) = validate_email(e2) =>
            /\ UserByEmail(body_email(e1)) = UserByEmail(body_email(e2))
            /\ UserByEmail(body_email(e1)) = UserByEmail(path_email(e2))
            /\ UserByEmail(path_email(e1)) = UserByEmail(path_email(e2))

\* some User row has the e-mail's normal form
NormalFormTaken(email) ==
    \E i \in UserIds : validate_email(users[i].email) = validate_email(email)

\* C5: registering an e-mail whose normal form a User row already has is
\* answered with Conflict and creates no row, when the row exists before the
\* call and when it appears while the call waits for the processor; so no two
\* User rows have the same normal form.
C5_OneUserPerNormalForm ==
    /\ \A raw \in RawEmails :
          NormalFormTaken(raw) =>
              create_customer_begin_response(raw) = Response("400", "Customer already exists")
    /\ \A r \in Slots :
          Suspended(r, "create_customer") /\ NormalFormTaken(req[r].email) =>
              /\ create_customer_finish_response(r, "accepted").http \in ClientErrors
              /\ create_customer_finish_tables(r, "accepted") = Current
    /\ \A i, j \in UserIds :
          validate_email(users[i].email) = validate_email(users[j].email) => i = j

\* VerifyCharge has succeeded for a transaction of this e-mail
VerifiedFor(email) ==
    \E i \in 1..Len(payment_logs) :
        /\ payment_logs[i].email = email
        /\ payment_logs[i].event_type = "initial_payment"

AuthorizationRequired == Response("400", "Customer must complete initial payment first")

\* C6: CreateSubscription for a registered user for whom no VerifyCharge has
\* succeeded is answered AuthorizationRequired (and so writes nothing and
\* calls no processor); a CreateSubscription of a user with a verified charge
\* and a stored authorization_code that the processor accepts answers
\* success, inserts a Subscription row with the user's e-mail and leaves the
\* user with subscription_active = true.
C6_SubscriptionNeedsVerifiedCharge ==
    /\ \A raw \in RawEmails :
          LET uid == UserByEmail(body_email(raw)) IN
          uid # 0 /\ ~VerifiedFor(users[uid].email) =>
              create_subscription_begin_response(raw) = AuthorizationRequired
    /\ \A r \in Slots, answer \in SubscriptionAnswers :
          LET uid == req[r].uid
              after == create_subscription_finish_tables(r, answer) IN
          /\ Suspended(r, "create_subscription")
          /\ VerifiedFor(req[r].email)
          /\ answer.outcome = "accepted"
          => /\ create_subscription_finish_response(r, answer) = Response("200", "success")
             /\ Len(after.subscriptions) = Len(subscriptions) + 1
             /\ after.subscriptions[Len(after.subscriptions)].email = users[uid].email
             /\ after.users[uid].subscription_active

\* the header is missing or is not the HMAC of the body under the secret
BadSignature(body, signature) ==
    signature = NoSignature \/ signature # hmac_sha512(PAYSTACK_SECRET_KEY, body)

\* C7: a webhook request whose signature is missing or wrong is answered with
\* an error status, without a processor call, and leaves the three tables as
\* they were, whatever its body.
C7_BadSignatureChangesNothing ==
    \A body \in Bodies : \A signature \in Signatures(body) :
        BadSignature(body, signature) =>
            /\ paystack_webhook_begin_response(body, signature) = Response("200", "error")
            /\ paystack_webhook_begin_tables(body, signature) = Current

\* a request is refused that would have changed a user had it been signed
C7_Witness ==
    \E body \in ChargeBodies \cup DisableBodies :
        /\ UserByEmail(body.customer_email) # 0
        /\ BadSignature(body, hmac_sha512("sk_other", body))
        /\ paystack_webhook_begin_tables(body, hmac_sha512("sk_other", body)) = Current
        /\ paystack_webhook_begin_tables(body, hmac_sha512(PAYSTACK_SECRET_KEY, body))
              # Current

\* the user has a subscription_code, and neither the user row nor a
\* Subscription row with that code holds an email_token
TokenMissing(uid) ==
    /\ users[uid].subscription_code # Null
    /\ users[uid].email_token = Null
    /\ \A i \in SubscriptionIds :
          subscriptions[i].subscription_code = users[uid].subscription_code =>
              subscriptions[i].email_token = Null

MissingToken == Response("400", "Missing email_token for subscription cancellation")

\* C8, the answer: CancelSubscription for a user with a subscription_code and
\* no email_token anywhere is answered MissingToken, and no cancellation of
\* such a user is ever waiting for the processor.
C8_MissingTokenAnswer ==
    /\ \A raw \in RawEmails \ {NoEmail} :
          LET uid == UserByEmail(path_email(raw)) IN
          uid # 0 /\ TokenMissing(uid) =>
              cancel_subscription_begin_response(raw) = MissingToken
    /\ \A r \in Slots :
          Suspended(r, "cancel_subscription") => ~TokenMissing(req[r].uid)

\* C8, the frame: such a call changes no stored field and starts no request.
C8_MissingTokenFrame ==
    \A raw \in RawEmails \ {NoEmail} :
        LET uid == UserByEmail(path_email(raw)) IN
        uid # 0 /\ TokenMissing(uid) /\ cancel_subscription_begin(raw) => UNCHANGED vars

\* C8: CancelSubscription for a user who has a subscription_code but no
\* email_token on the User row or on the Subscription row fails with
\* MissingToken, calls no processor and leaves every stored field unchanged.
C8_MissingTokenWritesNothing == []C8_MissingTokenAnswer /\ [][C8_MissingTokenFrame]_vars

\* an active subscriber without any token can ask for a cancellation
C8_Witness ==
    \E uid \in UserIds :
        /\ TokenMissing(uid)
        /\ users[uid].subscription_active
        /\ \E raw \in RawEmails : UserByEmail(path_email(raw)) = uid

\* a valid signature for the body
Signed(body) == hmac_sha512(PAYSTACK_SECRET_KEY, body)

\* C9: a validly signed charge.success for an existing user who, with the
\* event's authorization applied, has an authorization_code and no
\* subscription_code asks the processor for a subscription; when the
\* processor accepts, exactly one Subscription row is inserted and the user's
\* subscription_code is that row's code (and email_token is the token
\* returned, if one is).  For a user who has a subscription_code already
\* there is no processor call and no Subscription insert.
C9_AutoSubscription ==
    /\ \A body \in ChargeBodies :
          LET uid == UserByEmail(body.customer_email)
              answered == paystack_webhook_begin_response(body, Signed(body))
              after == paystack_webhook_begin_tables(body, Signed(body)) IN
          body.customer_email # NoEmail /\ uid # 0 =>
              /\ after.subscriptions = subscriptions
              /\ after.users[uid].subscription_code = users[uid].subscription_code
              /\ users[uid].subscription_code # Null => answered # Pending
              /\ /\ users[uid].subscription_code = Null
                 /\ (users[uid].authorization_code # Null \/ body.authorization_code # Null)
                 => answered = Pending
    /\ \A r \in Slots, answer \in SubscriptionAnswers :
          LET uid == req[r].uid
              after == paystack_webhook_charge_finish_tables(r, answer)
              last == Len(after.subscriptions) IN
          Suspended(r, "webhook_charge") /\ answer.outcome = "accepted" =>
              /\ last = Len(subscriptions) + 1
              /\ SubSeq(after.subscriptions, 1, last - 1) = subscriptions
              /\ after.subscriptions[last].email = users[uid].email
              /\ after.subscriptions[last].subscription_code \notin
                    {subscriptions[i].subscription_code : i \in SubscriptionIds}
              /\ after.users[uid].subscription_code = after.subscriptions[last].subscription_code
              /\ answer.with_token =>
                    /\ after.subscriptions[last].email_token # Null
                    /\ after.users[uid].email_token = after.subscriptions[last].email_token

\* a delivery waits for the processor's subscription, and a user with a
\* subscription_code exists
C9_Witness ==
    /\ \E r \in Slots : Suspended(r, "webhook_charge")
    /\ \E uid \in UserIds : users[uid].subscription_code # Null

\* C10: VerifyCharge of a transaction the processor reports as not successful
\* answers "failed" and writes nothing.  Of a successful one whose reference
\* is not logged yet, it appends exactly one PaymentLog row for the
\* reference, whether or not a User has the transaction's e-mail; it stores
\* the reported authorization_code with first_authorization = true on that
\* User and changes no other column, no other user and no subscription.
C10_VerifyChargeEffects ==
    \A reference \in References, answer \in VerifyAnswers :
        LET answered == verify_payment_response(reference, answer)
            after == verify_payment_tables(reference, answer)
            uid == UserByEmail(answer.customer_email)
            logged == Len(payment_logs) IN
        /\ answer.outcome = "accepted" /\ answer.status # "success" =>
              answered = Response("200", "failed") /\ after = Current
        /\ /\ answer.outcome = "accepted"
           /\ answer.status = "success"
           /\ ~ReferenceTaken(reference)
           => /\ answered = Response("200", "success")
              /\ Len(after.payment_logs) = logged + 1
              /\ SubSeq(after.payment_logs, 1, logged) = payment_logs
              /\ after.payment_logs[logged + 1].reference = reference
              /\ after.subscriptions = subscriptions
              /\ Len(after.users) = Len(users)
              /\ \A i \in UserIds :
                    IF i = uid /\ answer.authorization_code # Null
                    THEN after.users[i] =
                            [users[i] EXCEPT !.authorization_code = answer.authorization_code,
                                             !.first_authorization = TRUE]
                    ELSE after.users[i] = users[i]

\* a charge can be verified for a subscriber whose stored authorization_code
\* differs from the reported one, and one for an e-mail no User has
C10_Witness ==
    /\ \E i \in UserIds, answer \in SuccessAnswers :
          /\ UserByEmail(answer.customer_email) = i
          /\ users[i].subscription_active
          /\ users[i].authorization_code \notin {Null, answer.authorization_code}
          /\ answer.authorization_code # Null
    /\ \E reference \in References : ~ReferenceTaken(reference)

\* C11: a CancelSubscription that the processor accepts sets the user's
\* subscription_active to false and changes nothing else: the user's other
\* columns, the other users, the Subscription rows and the PaymentLog rows
\* stay, and the cancelled user still has its subscription_code.
C11_CancelOnlyDeactivates ==
    \A r \in Slots :
        LET uid == req[r].uid
            after == cancel_subscription_finish_tables(r, "accepted") IN
        Suspended(r, "cancel_subscription") =>
            /\ cancel_subscription_finish_response(r, "accepted") = Response("200", "success")
            /\ after.users = [users EXCEPT ![uid].subscription_active = FALSE]
            /\ after.users[uid].subscription_code # Null
            /\ after.subscriptions = subscriptions
            /\ after.payment_logs = payment_logs

\* C12: a validly signed subscription.disable or subscription.not_renew
\* webhook for an existing user is acknowledged, sets that user's
\* subscription_active to false and changes no other column of the user, no
\* other user, no Subscription row and no PaymentLog row.
C12_DisableOnlyDeactivates ==
    \A body \in DisableBodies :
        LET uid == UserByEmail(body.customer_email)
            after == paystack_webhook_begin_tables(body, Signed(body)) IN
        body.customer_email # NoEmail /\ uid # 0 =>
            /\ paystack_webhook_begin_response(body, Signed(body)) = Response("200", "ok")
            /\ after.users = [users EXCEPT ![uid].subscription_active = FALSE]
            /\ after.subscriptions = subscriptions
            /\ after.payment_logs = payment_logs

\* the processor can report as disabled the subscription of an active user
\* whose Subscription row says "active" and who has a logged payment
C12_Witness ==
    \E body \in DisableBodies :
        LET uid == UserByEmail(body.customer_email) IN
        /\ uid # 0
        /\ users[uid].subscription_active
        /\ users[uid].email_token # Null
        /\ SubscriptionByCode(users[uid].subscription_code) # 0
        /\ subscriptions[SubscriptionByCode(users[uid].subscription_code)].status = "active"
        /\ payment_logs # <<>>

\* C13: a validly signed charge.success webhook whose customer e-mail is
\* absent, or matches no User row, is acknowledged with status ok and writes
\* nothing to the three tables.
C13_UnknownCustomerIsNoOp ==
    \A body \in ChargeBodies :
        body.customer_email = NoEmail \/ UserByEmail(body.customer_email) = 0 =>
            /\ paystack_webhook_begin_response(body, Signed(body)) = Response("200", "ok")
            /\ paystack_webhook_begin_tables(body, Signed(body)) = Current

\* C13, amended: a validly signed charge.success webhook without a customer
\* e-mail is acknowledged with status ok and writes nothing.  One whose
\* e-mail matches no User row writes no User and no Subscription row and
\* calls no processor, but is logged like any other charge: one PaymentLog
\* row for its reference is appended and it is acknowledged with status ok,
\* or, when the reference is logged already, nothing is written and it is
\* answered with status error.
C13_UnknownCustomerIsOnlyLogged ==
    \A body \in ChargeBodies :
        LET answered == paystack_webhook_begin_response(body, Signed(body))
            after == paystack_webhook_begin_tables(body, Signed(body)) IN
        /\ body.customer_email = NoEmail =>
              answered = Response("200", "ok") /\ after = Current
        /\ body.customer_email # NoEmail /\ UserByEmail(body.customer_email) = 0 =>
              /\ after.users = users
              /\ after.subscriptions = subscriptions
              /\ IF \E i \in 1..Len(payment_logs) : payment_logs[i].reference = body.reference
                 THEN answered = Response("200", "error") /\ after.payment_logs = payment_logs
                 ELSE /\ answered = Response("200", "ok")
                      /\ after.payment_logs =
                            Append(payment_logs,
                                   [email |-> body.customer_email, reference |-> body.reference,
                                    status |-> "success", event_type |-> "charge.success"])

\* charges arrive for an e-mail no User has, while other users exist, with a
\* reference that is logged and with one that is not
C13_Witness ==
    /\ users # <<>>
    /\ \E body \in ChargeBodies :
          body.customer_email # NoEmail /\ UserByEmail(body.customer_email) = 0
    /\ \E r1, r2 \in References : ReferenceTaken(r1) /\ ~ReferenceTaken(r2)

\* C14: nothing keeps the two ways of creating a subscription apart.  While
\* a charge.success webhook waits for the processor's answer to its
\* subscription request, a CreateSubscription call for the same e-mail passes
\* its checks and goes to the processor; and while a CreateSubscription call
\* waits and the user has no subscription_code yet, a charge.success webhook
\* for the same e-mail goes to the processor for a subscription as well.
C14_NoMutualExclusion ==
    \A r \in Slots :
        /\ Suspended(r, "webhook_charge") =>
              create_subscription_begin_response(req[r].email) = Pending
        /\ Suspended(r, "create_subscription")
              /\ users[req[r].uid].subscription_code = Null =>
              \A body \in ChargeBodies :
                  body.customer_email = req[r].email =>
                      paystack_webhook_begin_response(body, Signed(body)) = Pending

\* both triggers have passed their checks for the same user and both
\* subscription requests are with the processor, neither answered yet
C14_Witness ==
    \E r1, r2 \in Slots :
        /\ Suspended(r1, "webhook_charge")
        /\ Suspended(r2, "create_subscription")
        /\ req[r1].uid = req[r2].uid
        /\ users[req[r1].uid].subscription_code = Null
        /\ minted = 0

\* the processor rejects the subscription request or cannot be reached
FailedAnswers == {a \in SubscriptionAnswers : a.outcome # "accepted"}

\* C15 as stated: when the processor fails the subscription request of the
\* auto-create branch, the webhook is acknowledged with status ok, the
\* PaymentLog row for the reference is appended, the user's updates stay, no
\* Subscription row is inserted and the user's subscription_code is null.
C15_ProcessorFailureIsAcknowledged ==
    \A r \in Slots, answer \in FailedAnswers :
        LET uid == req[r].uid
            after == paystack_webhook_charge_finish_tables(r, answer) IN
        Suspended(r, "webhook_charge") =>
            /\ paystack_webhook_charge_finish_response(r, answer) = Response("200", "ok")
            /\ Len(after.payment_logs) = Len(payment_logs) + 1
            /\ after.payment_logs[Len(after.payment_logs)].reference = req[r].reference
            /\ after.users[uid].authorization_code # Null
            /\ after.users[uid].subscription_active
            /\ after.subscriptions = subscriptions
            /\ after.users[uid].subscription_code = Null

\* C15, amended: a processor failure in the auto-create branch changes
\* nothing by itself.  The delivery leaves every User row (the committed
\* authorization_code, whatever subscription_active and subscription_code
\* are by then) and every Subscription row as they are, and ends like a
\* charge without auto-creation: the PaymentLog row for the reference is
\* appended and the webhook acknowledged with status ok, or, when the
\* reference is logged already, nothing is appended and the answer is error.
C15_ProcessorFailureIsNotFatal ==
    \A r \in Slots, answer \in FailedAnswers :
        LET uid == req[r].uid
            after == paystack_webhook_charge_finish_tables(r, answer) IN
        Suspended(r, "webhook_charge") =>
            /\ after.users = users
            /\ users[uid].authorization_code # Null
            /\ after.subscriptions = subscriptions
            /\ IF \E i \in 1..Len(payment_logs) : payment_logs[i].reference = req[r].reference
               THEN /\ paystack_webhook_charge_finish_response(r, answer) = Response("200", "error")
                    /\ after.payment_logs = payment_logs
               ELSE /\ paystack_webhook_charge_finish_response(r, answer) = Response("200", "ok")
                    /\ after.payment_logs =
                          Append(payment_logs,
                                 [email |-> users[uid].email, reference |-> req[r].reference,
                                  status |-> "success", event_type |-> "charge.success"])

\* two deliveries wait for the processor, one whose reference has been logged
\* meanwhile and one whose reference has not
C15_Witness ==
    \E r1, r2 \in Slots :
        /\ Suspended(r1, "webhook_charge") /\ ReferenceTaken(req[r1].reference)
        /\ Suspended(r2, "webhook_charge") /\ ~ReferenceTaken(req[r2].reference)
        /\ users[req[r2].uid].subscription_active
        /\ users[req[r2].uid].subscription_code = Null

\* C16: an operation that ends in a persistence error leaves no write of its
\* own: a VerifyCharge of a reference that is logged already, and a
\* charge.success webhook that answers error, leave every User row and every
\* Subscription row as they were.
C16_PersistenceErrorRollsBack ==
    /\ \A reference \in References, answer \in SuccessAnswers :
          LET after == verify_payment_tables(reference, answer) IN
          ReferenceTaken(reference) =>
              after.users = users /\ after.subscriptions = subscriptions
    /\ \A body \in ChargeBodies :
          LET after == paystack_webhook_begin_tables(body, Signed(body)) IN
          paystack_webhook_begin_response(body, Signed(body)) = Response("200", "error") =>
              after.users = users /\ after.subscriptions = subscriptions
    /\ \A r \in Slots, answer \in SubscriptionAnswers :
          LET after == paystack_webhook_charge_finish_tables(r, answer) IN
          /\ Suspended(r, "webhook_charge")
          /\ paystack_webhook_charge_finish_response(r, answer) = Response("200", "error")
          => after.users = users /\ after.subscriptions = subscriptions

\* C17, the rows: no two PaymentLog rows have the same reference.
C17_OneLogPerReference ==
    \A i, j \in 1..Len(payment_logs) :
        payment_logs[i].reference = payment_logs[j].reference => i = j

\* C17, the steps: a step leaves every PaymentLog row in place as it is.
C17_LogsKept ==
    /\ Len(payment_logs') >= Len(payment_logs)
    /\ SubSeq(payment_logs', 1, Len(payment_logs)) = payment_logs

\* C17: there is at most one PaymentLog row per reference, whether written by
\* VerifyCharge or by a charge.success webhook, and no operation modifies or
\* deletes a PaymentLog row.
C17_LogsUniqueAndAppendOnly == []C17_OneLogPerReference /\ [][C17_LogsKept]_vars

\* both paths have logged, and every reference is logged, so that any
\* further charge or verification repeats one
C17_Witness ==
    /\ \E i, j \in 1..Len(payment_logs) :
          /\ payment_logs[i].event_type = "initial_payment"
          /\ payment_logs[j].event_type = "charge.success"
    /\ \A reference \in References : ReferenceTaken(reference)

\* C18, the rows: there are as many Subscription rows as subscription
\* creations the processor has accepted.
C18_OneRowPerAcceptedCreation == Len(subscriptions) = minted

\* C18, the steps: a step inserts one Subscription row if it is a creation
\* the processor accepts and none otherwise, and leaves every existing row in
\* place with its subscription_code, plan_id, status and email_token.
C18_SubscriptionsKept ==
    /\ minted' - minted \in {0, 1}
    /\ Len(subscriptions') = Len(subscriptions) + (minted' - minted)
    /\ SubSeq(subscriptions', 1, Len(subscriptions)) = subscriptions

\* C18: Subscription rows are insert-only and one-to-one with the creations
\* the processor accepts, through CreateSubscription or through the webhook;
\* no other operation inserts, changes or deletes one.
C18_SubscriptionsInsertOnly ==
    []C18_OneRowPerAcceptedCreation /\ [][C18_SubscriptionsKept]_vars

\* a user whose subscription has been cancelled or disabled, with an older
\* Subscription row besides the one the user points at
C18_Witness ==
    \E uid \in UserIds :
        /\ users[uid].subscription_code # Null
        /\ ~users[uid].subscription_active
        /\ Len(subscriptions) >= 2
        /\ subscriptions[1].subscription_code # users[uid].subscription_code
        /\ \A i \in SubscriptionIds : subscriptions[i].status = "active"

\* the acknowledgments of the webhook
Acknowledgments == {Response("200", "ok"), Response("200", "error")}

\* C19: every webhook invocation, whatever its body and signature and
\* whatever fails while it is handled (a body that does not parse, a
\* persistence error, a processor failure), ends with an acknowledgment whose
\* status is ok or error, never with an HTTP failure.
C19_WebhookAlwaysAcknowledges ==
    /\ \A body \in Bodies : \A signature \in Signatures(body) :
          paystack_webhook_begin_response(body, signature) \in Acknowledgments \cup {Pending}
    /\ \A r \in Slots, answer \in SubscriptionAnswers :
          Suspended(r, "webhook_charge") =>
              paystack_webhook_charge_finish_response(r, answer) \in Acknowledgments

\* a delivery is about to fail on its payment log, with or without a
\* processor failure before it, while another charge would fail at once
C19_Witness ==
    /\ \E r \in Slots :
          /\ Suspended(r, "webhook_charge")
          /\ ReferenceTaken(req[r].reference)
          /\ \E answer \in FailedAnswers :
                paystack_webhook_charge_finish_response(r, answer) = Response("200", "error")
    /\ \E body \in ChargeBodies :
          paystack_webhook_begin_response(body, Signed(body)) = Response("200", "error")

\* C20: whenever a User has a subscription_code, a Subscription row with that
\* code exists and carries the user's e-mail; the two are written in one
\* commit, so this holds between any two steps of any interleaving.
C20_CodePointsAtOwnSubscription ==
    \A uid \in UserIds :
        users[uid].subscription_code # Null =>
            \E i \in SubscriptionIds :
                /\ subscriptions[i].subscription_code = users[uid].subscription_code
                /\ subscriptions[i].email = users[uid].email

\* a user points at the later of two Subscription rows while another request
\* for the user is still waiting for the processor
C20_Witness ==
    \E uid \in UserIds, r \in Slots :
        /\ Len(subscriptions) = 2
        /\ users[uid].subscription_code = subscriptions[2].subscription_code
        /\ req[r].pc = "await"
        /\ req[r].uid = uid

\* C21, the rows: a User with a subscription_code has an authorization_code.
C21_SubscribedIsAuthorized ==
    \A uid \in UserIds :
        users[uid].subscription_code # Null => users[uid].authorization_code # Null

\* C21, the steps: a step deletes no User row and resets none of
\* authorization_code, first_authorization and subscription_code once set.
C21_LifecycleKept ==
    /\ Len(users') >= Len(users)
    /\ \A uid \in UserIds :
          /\ users'[uid].email = users[uid].email
          /\ users[uid].authorization_code # Null => users'[uid].authorization_code # Null
          /\ users[uid].first_authorization => users'[uid].first_authorization
          /\ users[uid].subscription_code # Null => users'[uid].subscription_code # Null

\* C21: the lifecycle fields of a User only move forward: a User with a
\* subscription_code has an authorization_code, and no operation, the
\* cancellation and the disable webhooks included, resets authorization_code,
\* first_authorization or subscription_code or deletes the User row.
C21_LifecycleMovesForward == []C21_SubscribedIsAuthorized /\ [][C21_LifecycleKept]_vars

\* a subscribed user has been deactivated, next to another user
C21_Witness ==
    \E uid \in UserIds :
        /\ users[uid].subscription_code # Null
        /\ users[uid].first_authorization
        /\ ~users[uid].subscription_active
        /\ Len(users) = 2

\* the statuses of an error answer
ErrorStatuses == {"400", "500"}

\* C22: when the processor rejects, or cannot be reached for, the call made
\* by RegisterCustomer, CreateSubscription or CancelSubscription, the
\* operation answers with an error and the three tables stay as they are.
C22_ProcessorFailureWritesNothing ==
    \A r \in Slots :
        /\ Suspended(r, "create_customer") =>
              \A outcome \in ProcOutcomes \ {"accepted"} :
                  /\ create_customer_finish_response(r, outcome).http \in ErrorStatuses
                  /\ create_customer_finish_tables(r, outcome) = Current
        /\ Suspended(r, "create_subscription") =>
              \A answer \in FailedAnswers :
                  /\ create_subscription_finish_response(r, answer).http \in ErrorStatuses
                  /\ create_subscription_finish_tables(r, answer) = Current
        /\ Suspended(r, "cancel_subscription") =>
              \A outcome \in ProcOutcomes \ {"accepted"} :
                  /\ cancel_subscription_finish_response(r, outcome).http \in ErrorStatuses
                  /\ cancel_subscription_finish_tables(r, outcome) = Current

\* a subscription request and a cancellation of an active subscriber both
\* wait for the processor
C22_Witness ==
    \E r1, r2 \in Slots :
        /\ Suspended(r1, "create_subscription")
        /\ Suspended(r2, "cancel_subscription")
        /\ req[r1].uid = req[r2].uid
        /\ users[req[r1].uid].subscription_active

====
